---- MODULE Spec2Model ----
(***************************************************************************)
(* Tweet_Analyzer (src/app.py): a Streamlit page that loads a stop-word    *)
(* list, a pickled classifier/vectorizer and a Nitter scraper through      *)
(* st.cache_resource, cleans a text, classifies it and renders a card.     *)
(*                                                                         *)
(* Two specifications:                                                     *)
(*   Spec       the script main() under Streamlit's rerun model: every     *)
(*              widget interaction runs main() from the top; the cached    *)
(*              loaders keep their values between runs.                    *)
(*   SpecClean  the cleaning pipeline of predict_sentiment, statement by   *)
(*              statement, over every short text and stop-word list.       *)
(* A text is a sequence of one-character strings.                          *)
(***************************************************************************)
EXTENDS Integers, Sequences, FiniteSets, TLC

VARIABLES
    \* ---- Spec: the script run
    pc,          \* position of the current run of main()
    runs,        \* runs of main() started so far
    cache,       \* st.cache_resource: loader -> Miss or the value it returned
    bodyRuns,    \* loader -> how often its body has executed (history)
    stop_words,  \* main()'s local stop_words (Unset until assigned in this run)
    model,       \* main()'s locals model, vectorizer (one classifier value)
    scraper,     \* main()'s local scraper
    idx,         \* initialize_scraper: index of the instance the for loop is at
    probes,      \* initialize_scraper: instances tried in this call, with outcome
    requests,    \* get_tweets calls made by the call in progress (history)
    text_input,  \* value of the text area
    pressed1,    \* "Analyze Sentiment" returned True in this run
    username,    \* value of the username box
    pressed2,    \* "Fetch & Analyze Tweets" returned True in this run
    tweets_data, \* what scraper.get_tweets returned in this run
    k,           \* position of the tweet loop
    predicted,   \* predict_sentiment calls of this run (history)
    out,         \* elements displayed by this run, in order
    \* ---- SpecClean: one call of predict_sentiment
    ps_pc,       \* statement reached
    ps_in,       \* the argument text
    ps_stop,     \* the argument stop_words
    ps_text      \* the local variable text, rebound by each statement

mainVars == <<pc, runs, cache, bodyRuns, stop_words, model, scraper, idx, probes,
              requests, text_input, pressed1, username, pressed2, tweets_data, k,
              predicted, out>>
cleanVars == <<ps_pc, ps_in, ps_stop, ps_text>>
vars == <<mainVars, cleanVars>>

\* ------------------------------------------------------------------ bounds
\* Longest text handed to the cleaning pipeline in SpecClean.
MaxLen == 4
\* Most tweets one get_tweets response carries.
MaxTweets == 5
\* Runs of main() (the first load and the reruns after it).
MaxRuns == 2

\* ------------------------------------------------------------------- texts
Letters == {"a", "t", "A"}
Whitespace == {" "}
\* Letters of both cases, a character that is neither letter nor space, a space.
Alphabet == Letters \cup {"1"} \cup Whitespace

\* str.lower on one character
LowerChar(c) == CASE c = "A" -> "a" [] OTHER -> c

\* re.sub('[^a-zA-Z]', ' ', text)
re_sub_keep(text) == text
re_sub(text) == [i \in 1..Len(text) |-> IF text[i] \in Letters THEN text[i] ELSE " "]

\* text.lower()
lower(text) == [i \in 1..Len(text) |-> LowerChar(text[i])]

\* text.split(): the words between runs of whitespace, none of them empty
RECURSIVE SplitFrom(_, _, _)
SplitFrom(s, i, cur) ==
    IF i > Len(s) THEN (IF cur = <<>> THEN <<>> ELSE <<cur>>)
    ELSE IF s[i] \in Whitespace
         THEN (IF cur = <<>> THEN <<>> ELSE <<cur>>) \o SplitFrom(s, i + 1, <<>>)
         ELSE SplitFrom(s, i + 1, Append(cur, s[i]))
split(s) == SplitFrom(s, 1, <<>>)

\* [word for word in text if word not in stop_words]
drop_stop_words(words, stops) == SelectSeq(words, LAMBDA w : w \notin stops)

\* ' '.join(text)
RECURSIVE join(_)
join(words) ==
    IF words = <<>> THEN <<>>
    ELSE IF Len(words) = 1 THEN words[1]
    ELSE words[1] \o <<" ">> \o join(Tail(words))

\* The text predict_sentiment hands to vectorizer.transform.
clean(text, stops) == join(drop_stop_words(split(lower(re_sub(text))), stops))

\* text.strip(): leading and trailing whitespace removed
RECURSIVE lstrip(_)
lstrip(s) == IF s # <<>> /\ Head(s) \in Whitespace THEN lstrip(Tail(s)) ELSE s
RECURSIVE rstrip(_)
rstrip(s) ==
    IF s # <<>> /\ s[Len(s)] \in Whitespace THEN rstrip(SubSeq(s, 1, Len(s) - 1)) ELSE s
strip(s) == rstrip(lstrip(s))

\* ------------------------------------------------- SpecClean: predict_sentiment
Texts(n) == UNION {[1..m -> Alphabet] : m \in 0..n}
\* Stop-word lists: lowercase words, one of them a word no cleaned text can hold.
StopVocabulary == {<<"a">>, <<"a", "t">>, <<"A">>}
StopWordLists == SUBSET StopVocabulary

InitClean ==
    /\ ps_pc = "sub"
    /\ ps_in \in Texts(MaxLen)
    /\ ps_stop \in StopWordLists
    /\ ps_text = ps_in

IdleClean == ps_pc = "off" /\ ps_in = <<>> /\ ps_stop = {} /\ ps_text = <<>>

PsSub ==
    /\ UNCHANGED mainVars
    /\ ps_pc = "sub"
    /\ ps_text' = re_sub(ps_text)
    /\ ps_pc' = "split"
    /\ UNCHANGED <<ps_in, ps_stop>>

PsLowerSplit ==
    /\ UNCHANGED mainVars
    /\ ps_pc = "split"
    /\ ps_text' = split(lower(ps_text))
    /\ ps_pc' = "filter"
    /\ UNCHANGED <<ps_in, ps_stop>>

PsFilter ==
    /\ UNCHANGED mainVars
    /\ ps_pc = "filter"
    /\ ps_text' = drop_stop_words(ps_text, ps_stop)
    /\ ps_pc' = "join"
    /\ UNCHANGED <<ps_in, ps_stop>>

PsJoin ==
    /\ UNCHANGED mainVars
    /\ ps_pc = "join"
    /\ ps_text' = join(ps_text)
    /\ ps_pc' = "transform"
    /\ UNCHANGED <<ps_in, ps_stop>>


\* --------------------------------------------------------- Spec: values
\* Every value of a local or of the cache is a tagged record.
None == [tag |-> "None"]
Miss == [tag |-> "Miss"]
Unset == [tag |-> "Unset"]

Loaders == {"load_stopwords", "load_model_and_vectorizer", "initialize_scraper"}

\* stopwords.words('english'), over the model's alphabet
EnglishStopwords == [tag |-> "list", words |-> {<<"a">>, <<"a", "t">>}]

working_instances ==
    <<"https://nitter.net", "https://nitter.it", "https://nitter.domain.glass",
      "https://nitter.poast.org">>

\* Nitter(log_level=1, skip_instance_check=False, instance=instance)
NitterAt(instance) ==
    [tag |-> "Nitter", instance |-> instance, skip_instance_check |-> FALSE]
\* Nitter(log_level=1, skip_instance_check=True)
NitterFallback == [tag |-> "Nitter", instance |-> "", skip_instance_check |-> TRUE]

\* What the text area, the username box and a tweet can hold.
TextInputs == {<<>>, <<" ">>, <<"t", " ", "A">>}
Usernames == {<<>>, <<" ", " ">>, <<"a", "t">>}
TweetTexts == {<<"A", "t">>, <<"t", "1", "a">>}
TweetLists == UNION {[1..n -> TweetTexts] : n \in 0..MaxTweets}

\* The pickled model and vectorizer: an opaque function from the cleaned text
\* to a label (model.predict(vectorizer.transform([text]))[0]).
Labels == {0, 1, 4}
CleanDomain == {clean(t, EnglishStopwords.words) : t \in TweetTexts \cup TextInputs}
Classifiers == {[tag |-> "model", predict |-> f] : f \in [CleanDomain -> Labels]}

\* get_tweets: raises, returns something falsy, a dict without 'tweets', or
\* a dict with a list of tweets.
Responses ==
    {[tag |-> "raise", tweets |-> <<>>], [tag |-> "falsy", tweets |-> <<>>],
     [tag |-> "no_key", tweets |-> <<>>]}
    \cup {[tag |-> "dict", tweets |-> l] : l \in TweetLists}

\* One attempt of the loop of initialize_scraper.
ProbeOutcomes == {"ctor_raise", "test_raise", "falsy", "no_key", "ok"}

TestUser == <<"t", "w", "i", "t", "t", "e", "r">>

Request(by, s, user, number, max_retries, failed) ==
    [by |-> by, scraper |-> s, username |-> user, mode |-> "user", number |-> number,
     max_retries |-> max_retries, failed |-> failed]

Shown(where, kind, msg) == [where |-> where, kind |-> kind, msg |-> msg]

\* --------------------------------------------------- Spec: pure functions

\* predict_sentiment's last line; m is the loaded model/vectorizer pair
predict_sentiment_swapped(text, m, stops) ==
    IF m.predict[clean(text, stops.words)] = 1 THEN "Positive" ELSE "Negative"
predict_sentiment(text, m, stops) ==
    IF m.predict[clean(text, stops.words)] = 0 THEN "Negative" ELSE "Positive"

\* Whether predict_sentiment returns: it raises on a model that is None
\* (None.transform) and on a name never assigned.
Predicts(m, stops) == m.tag = "model" /\ stops.tag = "list"

\* create_card: the parts of the HTML that vary
create_card(tweet_text, sentiment) ==
    [color |-> IF sentiment = "Positive" THEN "#4CAF50" ELSE "#F44336",
     heading |-> sentiment, text |-> tweet_text]

\* st.markdown(create_card(...), unsafe_allow_html=True)
Markdown(where, card) ==
    [where |-> where, kind |-> "card", msg |-> card.heading, color |-> card.color,
     text |-> card.text]

\* The elements a cached loader displayed, shown again with its value.
LoaderShown(loader, value) ==
    CASE loader = "load_model_and_vectorizer" /\ value = None ->
            <<Shown("page", "error", "Failed to load model files")>>
      [] loader = "initialize_scraper" /\ value = None ->
            <<Shown("page", "error", "Scraper initialization failed")>>
      [] loader = "initialize_scraper" /\ value = NitterFallback ->
            <<Shown("page", "warning", "Using fallback mode with instance check disabled")>>
      [] loader = "initialize_scraper" /\ value \notin {None, NitterFallback} ->
            <<Shown("page", "success", "Connected to Nitter instance")>>
      [] OTHER -> <<>>

PredictCall(where, text) ==
    [where |-> where, text |-> text, model_loaded |-> model # Unset,
     stop_words_loaded |-> stop_words # Unset]

\* --------------------------------------------------------- Spec: actions

InitMain ==
    /\ pc = "idle"
    /\ runs = 0
    /\ cache = [l \in Loaders |-> Miss]
    /\ bodyRuns = [l \in Loaders |-> 0]
    /\ stop_words = Unset
    /\ model = Unset
    /\ scraper = Unset
    /\ idx = 0
    /\ probes = <<>>
    /\ requests = <<>>
    /\ text_input = <<>>
    /\ pressed1 = FALSE
    /\ username = <<>>
    /\ pressed2 = FALSE
    /\ tweets_data = None
    /\ k = 0
    /\ predicted = <<>>
    /\ out = <<>>

\* Streamlit starts main() from the top: the first load, or a rerun after a
\* widget changed. Every local starts unassigned; the cache is kept.
Rerun ==
    /\ UNCHANGED cleanVars
    /\ pc \in {"idle", "done", "crashed"}
    /\ runs < MaxRuns
    /\ runs' = runs + 1
    /\ pc' = "listdir"
    /\ stop_words' = Unset
    /\ model' = Unset
    /\ scraper' = Unset
    /\ idx' = 0
    /\ probes' = <<>>
    /\ requests' = <<>>
    /\ text_input' = <<>>
    /\ pressed1' = FALSE
    /\ username' = <<>>
    /\ pressed2' = FALSE
    /\ tweets_data' = None
    /\ k' = 0
    /\ predicted' = <<>>
    /\ out' = <<>>
    /\ UNCHANGED <<cache, bodyRuns>>

\* os.listdir, st.title, st.markdown: os.listdir raises when the directory
\* is missing, and nothing catches it.
ListDir ==
    /\ UNCHANGED cleanVars
    /\ pc = "listdir"
    /\ \E ok \in BOOLEAN :
         IF ok
         THEN /\ out' = out \o <<Shown("page", "write", "Files in directory:"),
                                 Shown("page", "title", "Twitter Sentiment Analysis")>>
              /\ pc' = "load_stopwords"
         ELSE /\ out' = out
              /\ pc' = "crashed"
    /\ UNCHANGED <<runs, cache, bodyRuns, stop_words, model, scraper, idx, probes,
                   requests, text_input, pressed1, username, pressed2, tweets_data, k,
                   predicted>>

\* stop_words = load_stopwords(). A cached value is returned without running
\* the body. The body has no try: stopwords.words raises when the corpus could
\* not be downloaded, st.cache_resource stores nothing, main() ends.
CallLoadStopwords ==
    /\ UNCHANGED cleanVars
    /\ pc = "load_stopwords"
    /\ IF cache["load_stopwords"] # Miss
       THEN /\ stop_words' = cache["load_stopwords"]
            /\ pc' = "load_model_and_vectorizer"
            /\ UNCHANGED <<cache, bodyRuns>>
       ELSE /\ bodyRuns' = [bodyRuns EXCEPT !["load_stopwords"] = @ + 1]
            /\ \E ok \in BOOLEAN :
                 IF ok
                 THEN /\ cache' = [cache EXCEPT !["load_stopwords"] = EnglishStopwords]
                      /\ stop_words' = EnglishStopwords
                      /\ pc' = "load_model_and_vectorizer"
                 ELSE /\ UNCHANGED <<cache, stop_words>>
                      /\ pc' = "crashed"
    /\ UNCHANGED <<runs, model, scraper, idx, probes, requests, text_input, pressed1,
                   username, pressed2, tweets_data, k, predicted, out>>

\* A main() that goes on to the tabs without the model loaded.
CallLoadModelSkipped ==
    /\ UNCHANGED cleanVars
    /\ pc = "load_model_and_vectorizer"
    /\ pc' = "initialize_scraper"
    /\ UNCHANGED <<runs, cache, bodyRuns, stop_words, model, scraper, idx, probes,
                   requests, text_input, pressed1, username, pressed2, tweets_data, k,
                   predicted, out>>

\* model, vectorizer = load_model_and_vectorizer(). The body's try/except
\* turns every failure into (None, None), which is a value and is cached.
CallLoadModel ==
    /\ UNCHANGED cleanVars
    /\ pc = "load_model_and_vectorizer"
    /\ IF cache["load_model_and_vectorizer"] # Miss
       THEN /\ model' = cache["load_model_and_vectorizer"]
            /\ UNCHANGED <<cache, bodyRuns>>
       ELSE /\ bodyRuns' = [bodyRuns EXCEPT !["load_model_and_vectorizer"] = @ + 1]
            /\ \E m \in Classifiers \cup {None} :
                 /\ cache' = [cache EXCEPT !["load_model_and_vectorizer"] = m]
                 /\ model' = m
    /\ out' = out \o LoaderShown("load_model_and_vectorizer", model')
    /\ pc' = "initialize_scraper"
    /\ UNCHANGED <<runs, stop_words, scraper, idx, probes, requests, text_input,
                   pressed1, username, pressed2, tweets_data, k, predicted>>


\* scraper = initialize_scraper(): a cached value is returned as it is;
\* otherwise the body starts its loop over working_instances.
CallInitializeScraper ==
    /\ UNCHANGED cleanVars
    /\ pc = "initialize_scraper"
    /\ IF cache["initialize_scraper"] # Miss
       THEN /\ scraper' = cache["initialize_scraper"]
            /\ out' = out \o LoaderShown("initialize_scraper", scraper')
            /\ pc' = "tabs"
            /\ UNCHANGED <<bodyRuns, idx>>
       ELSE /\ bodyRuns' = [bodyRuns EXCEPT !["initialize_scraper"] = @ + 1]
            /\ idx' = 1
            /\ pc' = "probe"
            /\ UNCHANGED <<scraper, out>>
    /\ UNCHANGED <<runs, cache, stop_words, model, probes, requests, text_input,
                   pressed1, username, pressed2, tweets_data, k, predicted>>

\* initialize_scraper returns value: st.cache_resource stores it, main() binds it.
ScraperReturned(value) ==
    /\ cache' = [cache EXCEPT !["initialize_scraper"] = value]
    /\ scraper' = value
    /\ out' = out \o LoaderShown("initialize_scraper", value)
    /\ pc' = "tabs"

\* Whether the test request's result passes `if test and 'tweets' in test`.
TestPassesAnyResult(outcome) == outcome \in {"ok", "no_key"}
TestPasses(outcome) == outcome = "ok"

\* One pass of `for instance in working_instances`: construct the scraper,
\* send the test request, return on a good result, otherwise go on.
ProbeInstance ==
    /\ UNCHANGED cleanVars
    /\ pc = "probe"
    /\ idx <= Len(working_instances)
    /\ \E outcome \in ProbeOutcomes :
         LET instance == working_instances[idx] IN
         /\ probes' = Append(probes, [instance |-> instance, outcome |-> outcome])
         /\ requests' =
              IF outcome = "ctor_raise" THEN requests
              ELSE Append(requests, Request("initialize_scraper", NitterAt(instance),
                                            TestUser, 1, 1, outcome # "ok"))
         /\ IF TestPasses(outcome)
            THEN /\ ScraperReturned(NitterAt(instance))
                 /\ idx' = idx
            ELSE /\ idx' = idx + 1
                 /\ UNCHANGED <<cache, scraper, out, pc>>
    /\ UNCHANGED <<runs, bodyRuns, stop_words, model, text_input, pressed1, username,
                   pressed2, tweets_data, k, predicted>>

\* After the loop: Nitter(skip_instance_check=True); the outer except
\* returns None when that raises.
FallbackScraper ==
    /\ UNCHANGED cleanVars
    /\ pc = "probe"
    /\ idx > Len(working_instances)
    /\ \E ok \in BOOLEAN :
         /\ probes' = Append(probes, [instance |-> NitterFallback.instance,
                                      outcome |-> IF ok THEN "ok" ELSE "ctor_raise"])
         /\ ScraperReturned(IF ok THEN NitterFallback ELSE None)
    /\ UNCHANGED <<runs, bodyRuns, stop_words, model, idx, requests, text_input,
                   pressed1, username, pressed2, tweets_data, k, predicted>>

\* tab1, tab2 = st.tabs(...): initialize_scraper's frame is gone.
Tabs ==
    /\ UNCHANGED cleanVars
    /\ pc = "tabs"
    /\ pc' = "tab1"
    /\ idx' = 0
    /\ probes' = <<>>
    /\ requests' = <<>>
    /\ UNCHANGED <<runs, cache, bodyRuns, stop_words, model, scraper, text_input,
                   pressed1, username, pressed2, tweets_data, k, predicted, out>>

\* `if text_input.strip():`
IsNonEmpty(text) == text # <<>>
IsFilled(text) == strip(text) # <<>>

\* with tab1: the text area, the button and its handler. predict_sentiment
\* is called outside any try: when it raises, main() ends with the exception.
Tab1 ==
    /\ UNCHANGED cleanVars
    /\ pc = "tab1"
    /\ \E text \in TextInputs, pressed \in BOOLEAN :
         /\ text_input' = text
         /\ pressed1' = pressed
         /\ IF ~pressed
            THEN /\ pc' = "tab2"
                 /\ UNCHANGED <<predicted, out>>
            ELSE IF ~IsFilled(text)
            THEN /\ out' = Append(out, Shown("tab1", "warning",
                                             "Please enter some text to analyze"))
                 /\ pc' = "tab2"
                 /\ UNCHANGED predicted
            ELSE /\ predicted' = Append(predicted, PredictCall("tab1", text))
                 /\ IF Predicts(model, stop_words)
                    THEN /\ out' = Append(out, Markdown("tab1",
                                   create_card(text, predict_sentiment(text, model, stop_words))))
                         /\ pc' = "tab2"
                    ELSE /\ out' = out
                         /\ pc' = "crashed"
    /\ UNCHANGED <<runs, cache, bodyRuns, stop_words, model, scraper, idx, probes,
                   requests, username, pressed2, tweets_data, k>>

ErrorFetching(o) ==
    o \o <<Shown("tab2", "error", "Error fetching tweets"),
           Shown("tab2", "info", "Troubleshooting tips")>>

\* with tab2, `if not scraper`: the error and the status link, no input.
Tab2Unavailable ==
    /\ UNCHANGED cleanVars
    /\ pc = "tab2"
    /\ scraper.tag # "Nitter"
    /\ out' = out \o <<Shown("tab2", "error",
                             "Twitter scraping service is currently unavailable."),
                       Shown("tab2", "link_button", "Check Nitter Status")>>
    /\ pc' = "done"
    /\ UNCHANGED <<runs, cache, bodyRuns, stop_words, model, scraper, idx, probes,
                   requests, text_input, pressed1, username, pressed2, tweets_data, k,
                   predicted>>

\* A handler that asks once more after a failed request.
FetchTweetsRetrying(user) ==
    \E resp \in Responses :
      /\ resp.tag # "dict"
      /\ requests' = requests \o <<Request("main", scraper, user, 5, 3, TRUE),
                                   Request("main", scraper, user, 5, 3, TRUE)>>
      /\ out' = ErrorFetching(out)
      /\ pc' = "done"
      /\ UNCHANGED <<tweets_data, k>>

\* The response of the one get_tweets call of the handler, and the branch taken.
FetchTweets(user) ==
    \E resp \in Responses :
      /\ requests' = Append(requests, Request("main", scraper, user, 5, 3,
                                              resp.tag # "dict"))
      /\ IF resp.tag = "raise"
         THEN /\ out' = ErrorFetching(out)
              /\ pc' = "done"
              /\ UNCHANGED <<tweets_data, k>>
         ELSE /\ tweets_data' = resp
              /\ IF resp.tag # "dict"
                 THEN /\ out' = Append(out, Shown("tab2", "error",
                                           "Received unexpected response from Nitter"))
                      /\ pc' = "done"
                      /\ k' = k
                 ELSE IF resp.tweets = <<>>
                 THEN /\ out' = Append(out, Shown("tab2", "warning",
                                           "No public tweets found."))
                      /\ pc' = "done"
                      /\ k' = k
                 ELSE /\ out' = Append(out, [where |-> "tab2", kind |-> "success",
                                             msg |-> "Found recent tweets",
                                             n |-> Len(resp.tweets)])
                      /\ pc' = "loop"
                      /\ k' = 1

\* with tab2, else: the username box, the button and its handler up to the
\* tweet loop. Only the button that was clicked returns True in a run.
Tab2 ==
    /\ UNCHANGED cleanVars
    /\ pc = "tab2"
    /\ scraper.tag = "Nitter"
    /\ \E user \in Usernames, pressed \in BOOLEAN :
         /\ pressed => ~pressed1
         /\ username' = user
         /\ pressed2' = pressed
         /\ IF ~pressed
            THEN /\ pc' = "done"
                 /\ UNCHANGED <<requests, tweets_data, k, out>>
            ELSE IF ~IsFilled(user)
            THEN /\ out' = Append(out, Shown("tab2", "warning", "Please enter a username"))
                 /\ pc' = "done"
                 /\ UNCHANGED <<requests, tweets_data, k>>
            ELSE FetchTweets(user)
    /\ UNCHANGED <<runs, cache, bodyRuns, stop_words, model, scraper, idx, probes,
                   text_input, pressed1, predicted>>

\* Whether the pass over tweets[i] is the last of `for tweet in tweets`.
LastTweetButOne(i, tweets) == i >= Len(tweets) - 1
LastTweet(i, tweets) == i = Len(tweets)

\* One pass of `for tweet in tweets_data['tweets']`, inside the handler's try:
\* an exception of predict_sentiment lands in `except Exception`.
TweetLoop ==
    /\ UNCHANGED cleanVars
    /\ pc = "loop"
    /\ LET tweet_text == tweets_data.tweets[k] IN
       /\ predicted' = Append(predicted, PredictCall("tab2", tweet_text))
       /\ IF Predicts(model, stop_words)
          THEN /\ out' = Append(out, Markdown("tab2",
                         create_card(tweet_text,
                                     predict_sentiment(tweet_text, model, stop_words))))
               /\ k' = k + 1
               /\ pc' = IF LastTweet(k, tweets_data.tweets) THEN "done" ELSE "loop"
          ELSE /\ out' = ErrorFetching(out)
               /\ k' = k
               /\ pc' = "done"
    /\ UNCHANGED <<runs, cache, bodyRuns, stop_words, model, scraper, idx, probes,
                   requests, text_input, pressed1, username, pressed2, tweets_data>>

\* ------------------------------------------------------ specifications

\* main() under Streamlit's reruns; predict_sentiment's frame is not stepped.
IdleMain == InitMain
Init == InitMain /\ IdleClean
Next ==
    \/ Rerun
    \/ ListDir
    \/ CallLoadStopwords
    \/ CallLoadModel
    \/ CallInitializeScraper
    \/ ProbeInstance
    \/ FallbackScraper
    \/ Tabs
    \/ Tab1
    \/ Tab2Unavailable
    \/ Tab2
    \/ TweetLoop
Spec == Init /\ [][Next]_vars

\* One call of predict_sentiment on every short text and stop-word list.
InitC == InitClean /\ IdleMain
NextC ==
    \/ PsSub
    \/ PsLowerSplit
    \/ PsFilter
    \/ PsJoin
SpecClean == InitC /\ [][NextC]_vars

\* ------------------------------------------------------------ properties

Indices(q) == 1..Len(q)
\* The text holds a character that is not whitespace.
HasVisible(text) == \E i \in Indices(text) : text[i] \notin Whitespace
ShownKinds(where, kind) == {i \in Indices(out) : out[i].where = where /\ out[i].kind = kind}
IsShown(where, kind, msg) == \E i \in ShownKinds(where, kind) : out[i].msg = msg
\* What this run displayed inside the second tab.
Tab2Out == SelectSeq(out, LAMBDA e : e.where = "tab2")
PastLoaders == pc \in {"tabs", "tab1", "tab2", "loop", "done"}
MainRequests == {i \in Indices(requests) : requests[i].by = "main"}

\* C1: every predict_sentiment call is made with stop_words and model bound by
\* their loaders, every get_tweets call of the tweet tab with scraper bound by
\* initialize_scraper, and from the tabs on the three locals hold what the
\* loaders returned.
LoadBeforeUse ==
    /\ \A i \in Indices(predicted) :
         predicted[i].model_loaded /\ predicted[i].stop_words_loaded
    /\ \A i \in MainRequests : requests[i].scraper # Unset
    /\ \A i \in MainRequests : requests[i].scraper = cache["initialize_scraper"]
    /\ PastLoaders =>
         /\ stop_words # Unset /\ stop_words = cache["load_stopwords"]
         /\ model # Unset /\ model = cache["load_model_and_vectorizer"]
         /\ scraper # Unset /\ scraper = cache["initialize_scraper"]

\* A run that fetched tweets and classified them.
LoadBeforeUseWitness ==
    /\ pc = "done"
    /\ MainRequests # {}
    /\ Len(predicted) >= 2

\* C2: no exception propagates out of main().
NoExceptionLeavesMain == pc # "crashed"

\* ---- C3
LowercaseLetters == {"a", "t"}
\* The maximal runs of characters outside seps, as (first, last) positions.
WordSpans(s, seps) ==
    {sp \in Indices(s) \X Indices(s) :
       /\ sp[1] <= sp[2]
       /\ \A i \in sp[1]..sp[2] : s[i] \notin seps
       /\ (sp[1] = 1 \/ s[sp[1] - 1] \in seps)
       /\ (sp[2] = Len(s) \/ s[sp[2] + 1] \in seps)}
\* The same runs, as words from left to right.
WordsOf(s, seps) ==
    LET spans == WordSpans(s, seps)
        nth(i) == CHOOSE sp \in spans :
                    Cardinality({q \in spans : q[1] < sp[1]}) = i - 1
    IN [i \in 1..Cardinality(spans) |-> SubSeq(s, nth(i)[1], nth(i)[2])]
\* The letter runs of the argument, lowercased.
InputWords == 
    LET w == WordsOf(ps_in, Alphabet \ Letters)
    IN [i \in Indices(w) |-> [j \in Indices(w[i]) |-> LowerChar(w[i][j])]]

\* C3: the text handed to vectorizer.transform holds only lowercase letters
\* and single separating spaces, holds no stop word, and its words are the
\* argument's letter runs, lowercased, minus the stop words, in their order.
CleanedTextShape ==
    ps_pc = "transform" =>
      /\ \A i \in Indices(ps_text) : ps_text[i] \in LowercaseLetters \cup {" "}
      /\ \A i \in Indices(ps_text) :
           ps_text[i] = " " => /\ i # 1
                               /\ i # Len(ps_text)
                               /\ ps_text[i + 1] # " "
      /\ \A i \in Indices(WordsOf(ps_text, {" "})) : WordsOf(ps_text, {" "})[i] \notin ps_stop
      /\ WordsOf(ps_text, {" "}) = SelectSeq(InputWords, LAMBDA w : w \notin ps_stop)

\* A text with an uppercase letter and a non-letter, one of whose words is
\* dropped as a stop word while another survives.
CleanedTextWitness ==
    /\ ps_pc = "transform"
    /\ \E i \in Indices(ps_in) : ps_in[i] = "A"
    /\ \E i \in Indices(ps_in) : ps_in[i] = "1"
    /\ \E i \in Indices(InputWords) : InputWords[i] \in ps_stop
    /\ ps_text # <<>>

\* C4: the body of each cached loader executes at most once, and the locals
\* of every run hold the value cached then.
LoaderBodyRunsOnce ==
    /\ \A l \in Loaders : bodyRuns[l] <= 1
    /\ PastLoaders =>
         /\ stop_words = cache["load_stopwords"]
         /\ model = cache["load_model_and_vectorizer"]
         /\ scraper = cache["initialize_scraper"]

\* ---- C5
Cards == ShownKinds("tab2", "card")
SuccessShown == ShownKinds("tab2", "success") # {}
FetchErrorShown == IsShown("tab2", "error", "Error fetching tweets")

\* C5 as stated: a fetch that reached the success branch and classified
\* every tweet has rendered five cards.
AlwaysFiveCards ==
    (pc = "done" /\ SuccessShown /\ ~FetchErrorShown) => Cardinality(Cards) = 5

\* C5 amended: the success branch announces and renders as many cards as the
\* response holds tweets, one per tweet in order, unless predict_sentiment
\* raises on the first tweet (model files not loaded): then no card is
\* rendered and the fetch error follows the success notice.
OneCardPerTweet ==
    (pc = "done" /\ SuccessShown) =>
      LET tweets == tweets_data.tweets IN
      /\ tweets_data.tag = "dict" /\ tweets # <<>>
      /\ Tab2Out[1].kind = "success" /\ Tab2Out[1].n = Len(tweets)
      /\ IF model.tag = "model"
         THEN /\ Len(Tab2Out) = 1 + Len(tweets)
              /\ \A i \in Indices(tweets) :
                   Tab2Out[i + 1].kind = "card" /\ Tab2Out[i + 1].text = tweets[i]
         ELSE Cards = {} /\ FetchErrorShown

\* A finished fetch with as many cards as tweets, and not five of them.
OneCardPerTweetWitness ==
    /\ pc = "done"
    /\ SuccessShown
    /\ Cardinality(Cards) = Len(tweets_data.tweets)
    /\ Cardinality(Cards) \in {2, 3}

\* ---- C6
RequestArgs(r) == <<r.username, r.mode, r.number, r.max_retries>>

\* C6 as stated: no request is sent again after it failed.
NoRequestRepeatedAfterFailure ==
    \A i, j \in Indices(requests) :
      (i < j /\ requests[i].failed) => RequestArgs(requests[j]) # RequestArgs(requests[i])

\* C6 amended: the handler of the tweet tab sends one request per press, with
\* number=5 and max_retries=3, and nothing after it; initialize_scraper sends
\* its test request to one instance after the other, at most once to each.
NoRetryOnTheSameScraper ==
    /\ Cardinality(MainRequests) <= 1
    /\ \A i \in MainRequests :
         /\ i = Len(requests)
         /\ requests[i].number = 5 /\ requests[i].max_retries = 3
         /\ requests[i].username = username
    /\ \A i \in Indices(requests) \ MainRequests :
         /\ RequestArgs(requests[i]) = <<TestUser, "user", 1, 1>>
         /\ requests[i].scraper \in {NitterAt(working_instances[n]) : n \in 1..4}
         /\ i < Len(requests) => requests[i].failed
    /\ \A i, j \in Indices(requests) : i < j => requests[i].scraper # requests[j].scraper
    /\ Len(requests) <= Len(working_instances)

\* A press whose one request failed, the run over.
NoRetryWitness ==
    /\ pc = "done"
    /\ Len(requests) = 1
    /\ requests[1].by = "main"
    /\ requests[1].failed

\* C7: every card's heading is "Negative" exactly when the model's label for
\* the card's cleaned text is 0 and "Positive" for any other label, and the
\* card is green for "Positive" and red for "Negative".
CardFollowsLabel ==
    \A i \in Indices(out) :
      out[i].kind = "card" =>
        LET label == model.predict[clean(out[i].text, stop_words.words)] IN
        /\ out[i].msg \in {"Positive", "Negative"}
        /\ out[i].msg = "Negative" <=> label = 0
        /\ out[i].msg = "Positive" => out[i].color = "#4CAF50"
        /\ out[i].msg = "Negative" => out[i].color = "#F44336"

\* A run that rendered a red card for label 0 and a green one for label 4.
CardFollowsLabelWitness ==
    /\ model.tag = "model"
    /\ \E i, j \in Indices(out) :
         /\ out[i].kind = "card" /\ out[j].kind = "card"
         /\ model.predict[clean(out[i].text, stop_words.words)] = 0
         /\ out[i].color = "#F44336"
         /\ model.predict[clean(out[j].text, stop_words.words)] = 4
         /\ out[j].color = "#4CAF50"

\* ---- C8
NInstances == Len(working_instances)

\* C8: the instances are tried in list order, each once, none after a good
\* test; the scraper returned is that of the instance whose test was good;
\* the fallback is built only after all four failed, and None is returned
\* only when building the fallback raised.
ProbesInListOrder ==
    /\ Len(probes) <= NInstances + 1
    /\ \A j \in Indices(probes) :
         /\ j <= NInstances => probes[j].instance = working_instances[j]
         /\ j < Len(probes) => probes[j].outcome # "ok"
         /\ j = NInstances + 1 => probes[j].instance = NitterFallback.instance
    /\ pc = "probe" =>
         /\ idx = Len(probes) + 1
         /\ \A j \in Indices(probes) : probes[j].outcome # "ok"
         /\ cache["initialize_scraper"] = Miss
    /\ (pc = "tabs" /\ probes # <<>>) =>
         LET n == Len(probes)
             last == probes[n]
         IN /\ cache["initialize_scraper"] = scraper
            /\ n <= NInstances => last.outcome = "ok" /\ scraper = NitterAt(last.instance)
            /\ scraper = NitterFallback <=> (n = NInstances + 1 /\ last.outcome = "ok")
            /\ scraper = None <=> (n = NInstances + 1 /\ last.outcome = "ctor_raise")

\* The third instance answered after two that failed in different ways.
ProbesWitness ==
    /\ pc = "tabs"
    /\ Len(probes) = 3
    /\ probes[1].outcome = "no_key"
    /\ probes[2].outcome = "test_raise"
    /\ scraper = NitterAt(working_instances[3])

\* C9: blank text is never classified and a blank username never fetched,
\* each gets its warning; without a scraper nothing is fetched.
BlankInputStopsShort ==
    /\ \A i \in Indices(predicted) :
         predicted[i].where = "tab1" => HasVisible(predicted[i].text)
    /\ \A i \in MainRequests :
         HasVisible(requests[i].username) /\ requests[i].scraper.tag = "Nitter"
    /\ (pc \in {"tab2", "loop", "done"} /\ pressed1 /\ ~HasVisible(text_input)) =>
         predicted = <<>> /\ IsShown("tab1", "warning", "Please enter some text to analyze")
    /\ (pc = "done" /\ pressed2 /\ ~HasVisible(username)) =>
         /\ requests = <<>>
         /\ predicted = <<>>
         /\ IsShown("tab2", "warning", "Please enter a username")
    /\ (pc = "done" /\ scraper.tag # "Nitter") =>
         /\ ~pressed2
         /\ requests = <<>>
         /\ IsShown("tab2", "error", "Twitter scraping service is currently unavailable.")

\* "Analyze Sentiment" pressed on a text of one space, the run over.
BlankInputWitness ==
    /\ pc = "done"
    /\ pressed1
    /\ text_input = <<" ">>

\* C10: a press with a username ends in exactly one of the four outcomes.
FetchEndsInOneOfFour ==
    (pc = "done" /\ pressed2 /\ HasVisible(username)) =>
      \/ /\ tweets_data.tag = "dict"
         /\ Len(Tab2Out) = 1 + Len(tweets_data.tweets)
         /\ Len(Tab2Out) > 1
         /\ Tab2Out[1].kind = "success"
         /\ \A i \in Indices(tweets_data.tweets) :
              Tab2Out[i + 1].kind = "card" /\ Tab2Out[i + 1].text = tweets_data.tweets[i]
      \/ Tab2Out = <<Shown("tab2", "warning", "No public tweets found.")>>
      \/ Tab2Out = <<Shown("tab2", "error", "Received unexpected response from Nitter")>>
      \/ Tab2Out = ErrorFetching(<<>>)

====
